---- MODULE Spec2Model ----
(***************************************************************************)
(* Model of the deck / collection core of MTGApp:                          *)
(*   src/src/models/deck.py            Deck.add_card, remove_card, ...     *)
(*   src/src/services/card_service.py  CardService name index              *)
(*   src/src/services/deck_service.py  DeckService.compare_with_collection *)
(*   src/src/controllers/deck_controller.py  DeckController                *)
(*                                                                         *)
(* A Card is the record [card_name, english_card_name, quantity]; the      *)
(* other fields of the dataclass are not read by the operations below.     *)
(* Python values that reach a comparison with a different type are tagged  *)
(* (Str, CardObj, PyInt, PyNone) so that the comparison is modelled by     *)
(* what Python does with it.                                               *)
(***************************************************************************)
EXTENDS Integers, Sequences, FiniteSets, TLC

VARIABLES
    cards,          \* Deck.cards of the deck being worked on
    current_deck,   \* DeckController.current_deck: "None" or "deck"
    collection,     \* the records of the collection file, in load order
    card_service,   \* CardService._cards_cache and ._cards_by_name
    deck_info,      \* the name and format of the current deck
    files,          \* ImageService.cache_dir: the bytes of each cache file
    served,         \* URLs download_and_cache_image returned an image for
    threads,        \* the download_and_cache_image calls running in threads
    data_exists,    \* CardService.data_path.exists()
    search_cache,   \* CardController._search_cache
    deck_dir,       \* DeckService.decks_dir: the deck stored in each file
    last            \* the last call: its name, inputs and return value

deckVars == <<cards, current_deck, collection, card_service, deck_info>>
imageVars == <<files, served, threads>>
storeVars == <<data_exists, search_cache, deck_dir>>
vars == <<deckVars, imageVars, storeVars, last>>

--------------------------------------------------------------------------
(* Bounds *)

MaxCopies == 4        \* copies held by a deck, and copies per call
MaxHeld == 5          \* copies held by a deck built through the controller
MaxCollection == 1    \* records in the collection file
MaxEntries == 2       \* entries of a deck handed to the format validation
MaxOwned == 2         \* owned copies of one collection record
MaxRecords == 2       \* records in the collection file that is searched
MaxName == 5          \* characters of a deck name handed to _safe_filename
MaxSavedName == 2     \* characters of the name of a saved deck
MaxSaved == 2         \* deck files in decks_dir
MaxLines == 2         \* lines of an imported text file

--------------------------------------------------------------------------
(* Strings *)

\* the numbers of validate_deck_format
StandardCards == 60
CommanderCards == 100
CommanderCopies == 1
ModernCards == 60
ModernCopies == 4

\* the copies a deck may hold of one card when another is added
CopyLimit == 4

\* the default limit of CardService.search_cards and of advanced_search
DefaultLimit == 50
AdvancedLimit == 100

None == "None"
Names == {"Bolt", "bolt", "Rayo"}
Translated == {<<"Rayo", "Bolt">>}      \* card_name, english_card_name
EnglishNames == {t[2] : t \in Translated}

\* str.lower()
Lower(s) ==
    CASE s = "Bolt" -> "bolt"
      [] s = "Rayo" -> "rayo"
      [] s = "Modern" -> "modern"
      [] s = "EDH" -> "edh"
      [] s = "BOL" -> "bol"
      [] OTHER -> s

\* truth value of an Optional[str]
Truthy(s) == s # None /\ s # ""

Keys == {Lower(n) : n \in Names \cup EnglishNames}

\* tagged Python values
Str(s) == [kind |-> "str", s |-> s]
CardObj(c) == [kind |-> "card", card |-> c]
PyInt(n) == [kind |-> "int", n |-> n]
PyNone == [kind |-> "none"]

\* field == key, where field is a str or None and key any Python value:
\* a str never equals a Card (both __eq__ return NotImplemented)
PyStrEq(field, key) == key.kind = "str" /\ field = key.s

--------------------------------------------------------------------------
(* Cards *)

Card(n, e, q) == [card_name |-> n, english_card_name |-> e, quantity |-> q]

\* the cards the callers hand in: a name alone, or a name and its english name
CardPool ==
    {Card(n, None, 0) : n \in Names} \cup {Card(t[1], t[2], 0) : t \in Translated}

RECURSIVE SeqsUpTo(_, _)
SeqsUpTo(S, n) ==
    IF n = 0 THEN {<<>>}
    ELSE LET shorter == SeqsUpTo(S, n - 1)
         IN shorter \cup {Append(s, x) : s \in {t \in shorter : Len(t) = n - 1}, x \in S}

Records == {[c EXCEPT !.quantity = q] : c \in CardPool, q \in 0..MaxOwned}

Collections == SeqsUpTo(Records, MaxCollection)

--------------------------------------------------------------------------
(* Deck (src/src/models/deck.py) *)

\* Deck.find_card: position of the first entry one of whose names equals
\* the argument, 0 for None
RECURSIVE find_card_from(_, _, _)
find_card_from(cs, key, i) ==
    IF i > Len(cs) THEN 0
    ELSE IF PyStrEq(cs[i].card_name, key) \/ PyStrEq(cs[i].english_card_name, key)
         THEN i
         ELSE find_card_from(cs, key, i + 1)

find_card(cs, key) == find_card_from(cs, key, 1)

\* Deck.add_card
add_card(cs, card, quantity) ==
    LET i == find_card(cs, Str(card.card_name))
    IN IF i # 0
       THEN [cs EXCEPT ![i].quantity = @ + quantity]
       ELSE Append(cs, [card EXCEPT !.quantity = quantity])

\* list.remove(x): drops the first element equal to x
RECURSIVE list_remove_from(_, _, _)
list_remove_from(cs, x, i) ==
    IF i > Len(cs) THEN cs
    ELSE IF cs[i] = x
         THEN SubSeq(cs, 1, i - 1) \o SubSeq(cs, i + 1, Len(cs))
         ELSE list_remove_from(cs, x, i + 1)

list_remove(cs, x) == list_remove_from(cs, x, 1)

\* remove_card that leaves the entry in the list when its quantity reaches 0
remove_card_keep_zero(cs, key, quantity) ==
    LET i == find_card(cs, key)
    IN IF i = 0
       THEN [cards |-> cs, ret |-> FALSE, raised |-> FALSE]
       ELSE IF quantity.kind # "int"
       THEN [cards |-> cs, ret |-> FALSE, raised |-> TRUE]
       ELSE IF cs[i].quantity >= quantity.n
       THEN [cards |-> [cs EXCEPT ![i].quantity = @ - quantity.n],
             ret |-> TRUE, raised |-> FALSE]
       ELSE [cards |-> cs, ret |-> FALSE, raised |-> FALSE]

\* Deck.remove_card: the new list, the return value, and whether the call
\* raised (int >= None is a TypeError)
remove_card(cs, key, quantity) ==
    LET i == find_card(cs, key)
    IN IF i = 0
       THEN [cards |-> cs, ret |-> FALSE, raised |-> FALSE]
       ELSE IF quantity.kind # "int"
       THEN [cards |-> cs, ret |-> FALSE, raised |-> TRUE]
       ELSE IF cs[i].quantity >= quantity.n
       THEN LET dec == [cs EXCEPT ![i].quantity = @ - quantity.n]
            IN [cards |-> IF dec[i].quantity = 0 THEN list_remove(dec, dec[i]) ELSE dec,
                ret |-> TRUE, raised |-> FALSE]
       ELSE [cards |-> cs, ret |-> FALSE, raised |-> FALSE]

\* total_cards that counts entries (unique_cards) instead of copies
total_cards_entries(cs) == Len(cs)

\* Deck.total_cards
RECURSIVE total_cards(_)
total_cards(cs) ==
    IF cs = <<>> THEN 0 ELSE cs[1].quantity + total_cards(Tail(cs))

--------------------------------------------------------------------------
(* CardService (src/src/services/card_service.py) *)

\* a dict from lower-cased name to a record, named by its position in
\* load order, 0 = no key
EmptyDict == [k \in Keys |-> 0]

\* CardService._build_name_index: both names of every record, in load order,
\* a later assignment to a key replacing the earlier one
RECURSIVE build_name_index_from(_, _, _)
build_name_index_from(cache, i, index) ==
    IF i > Len(cache) THEN index
    ELSE LET c == cache[i]
             by_name == IF Truthy(c.card_name)
                        THEN [index EXCEPT ![Lower(c.card_name)] = i]
                        ELSE index
             by_english == IF Truthy(c.english_card_name)
                           THEN [by_name EXCEPT ![Lower(c.english_card_name)] = i]
                           ELSE by_name
         IN build_name_index_from(cache, i + 1, by_english)

\* an index in which the first record carrying a name keeps the key
build_name_index_first(cache) ==
    [k \in Keys |->
        LET carriers == {i \in 1..Len(cache) :
                            \/ Lower(cache[i].card_name) = k
                            \/ /\ Truthy(cache[i].english_card_name)
                               /\ Lower(cache[i].english_card_name) = k}
        IN IF carriers = {} THEN 0
           ELSE CHOOSE i \in carriers : \A j \in carriers : i <= j]

build_name_index(cache) == build_name_index_from(cache, 1, EmptyDict)

\* a CardService whose _cards_cache and _cards_by_name are None
NotLoaded == [loaded |-> FALSE, cards_cache |-> <<>>, cards_by_name |-> EmptyDict]

\* load_cards that fills the cache without building the name index
load_cards_no_index(service, file) ==
    IF ~service.loaded
    THEN [loaded |-> TRUE, cards_cache |-> file, cards_by_name |-> EmptyDict]
    ELSE service

\* CardService.load_cards(): reads the file and builds the index the first
\* time, keeps the cached list afterwards
load_cards(service, file) ==
    IF ~service.loaded
    THEN [loaded |-> TRUE, cards_cache |-> file,
          cards_by_name |-> build_name_index(file)]
    ELSE service

\* CardService.find_card_by_name: position of the record, 0 for None
find_card_by_name(cache, name) == build_name_index(cache)[Lower(name)]

--------------------------------------------------------------------------
(* DeckService.compare_with_collection (src/src/services/deck_service.py) *)

\* collection_by_name = {card.card_name.lower(): card for card in ... if card.card_name}
RECURSIVE collection_by_name_from(_, _, _)
collection_by_name_from(cache, i, index) ==
    IF i > Len(cache) THEN index
    ELSE collection_by_name_from(cache, i + 1,
            IF Truthy(cache[i].card_name)
            THEN [index EXCEPT ![Lower(cache[i].card_name)] = i]
            ELSE index)

collection_by_name(cache) == collection_by_name_from(cache, 1, EmptyDict)

\* classify that sends an entry owned in exactly the needed number to partial
classify_strict(cache, k, deck_card) ==
    IF k = 0 \/ cache[k].quantity = 0 THEN "missing"
    ELSE IF cache[k].quantity > deck_card.quantity THEN "available"
    ELSE "partial"

\* the branch taken for one deck entry; k is the position collection_by_name
\* gives for the entry's name (0: collection_card is None)
classify(cache, k, deck_card) ==
    IF k = 0 \/ cache[k].quantity = 0 THEN "missing"
    ELSE IF cache[k].quantity >= deck_card.quantity THEN "available"
    ELSE "partial"

\* the loop over deck.cards, appending one item to one of the three lists
RECURSIVE compare_loop(_, _, _, _)
compare_loop(cs, cache, i, lists) ==
    IF i > Len(cs) THEN lists
    ELSE LET deck_card == cs[i]
             k == collection_by_name(cache)[Lower(deck_card.card_name)]
             branch == classify(cache, k, deck_card)
         IN compare_loop(cs, cache, i + 1,
              CASE branch = "missing" ->
                     [lists EXCEPT !.missing_cards = Append(@,
                         [card |-> deck_card, needed |-> deck_card.quantity,
                          available |-> 0])]
                [] branch = "available" ->
                     [lists EXCEPT !.available_cards = Append(@,
                         [card |-> deck_card, needed |-> deck_card.quantity,
                          available |-> cache[k].quantity])]
                [] OTHER ->
                     [lists EXCEPT !.partial_cards = Append(@,
                         [card |-> deck_card, needed |-> deck_card.quantity,
                          available |-> cache[k].quantity,
                          missing |-> deck_card.quantity - cache[k].quantity])])

RECURSIVE SumAvailable(_)
SumAvailable(items) ==
    IF items = <<>> THEN 0 ELSE items[1].available + SumAvailable(Tail(items))

RECURSIVE SumNeeded(_)
SumNeeded(items) ==
    IF items = <<>> THEN 0 ELSE items[1].needed + SumNeeded(Tail(items))

RECURSIVE SumMissing(_)
SumMissing(items) ==
    IF items = <<>> THEN 0 ELSE items[1].missing + SumMissing(Tail(items))

\* round(num / den * 100, 2) in hundredths of a percent: the nearest
\* hundredth, a tie going to the even one
round2(num, den) ==
    LET q == (num * 10000) \div den
        r == (num * 10000) % den
    IN IF 2 * r < den THEN q
       ELSE IF 2 * r > den THEN q + 1
       ELSE IF q % 2 = 0 THEN q ELSE q + 1

\* the returned dict; completion_percentage is held in hundredths
compare_with_collection(cs, cache) ==
    LET lists == compare_loop(cs, cache, 1,
                    [missing_cards |-> <<>>, available_cards |-> <<>>,
                     partial_cards |-> <<>>])
        available == SumAvailable(lists.available_cards) + SumAvailable(lists.partial_cards)
    IN [missing_cards |-> lists.missing_cards,
        available_cards |-> lists.available_cards,
        partial_cards |-> lists.partial_cards,
        total_cards_needed |-> total_cards(cs),
        total_cards_available |-> available,
        total_cards_missing |-> SumNeeded(lists.missing_cards) + SumMissing(lists.partial_cards),
        completion_percentage |->
            IF total_cards(cs) > 0 THEN round2(available, total_cards(cs)) ELSE 0]

--------------------------------------------------------------------------
(* DeckController (src/src/controllers/deck_controller.py) *)

\* add_card_to_deck: the deck's new list and the return value
add_card_to_deck(deck, cs, cache, card_name, quantity) ==
    IF deck = None THEN [cards |-> cs, ret |-> FALSE]
    ELSE LET k == find_card_by_name(cache, card_name)
         IN IF k = 0 THEN [cards |-> cs, ret |-> FALSE]
            ELSE [cards |-> add_card(cs, cache[k], quantity), ret |-> TRUE]

\* remove_card_from_deck: Deck.remove_card is handed the Card object found
\* in the collection; an exception is logged and reported as False
remove_card_from_deck(deck, cs, cache, card_name, quantity) ==
    IF deck = None THEN [cards |-> cs, ret |-> FALSE]
    ELSE LET k == find_card_by_name(cache, card_name)
         IN IF k = 0 THEN [cards |-> cs, ret |-> FALSE]
            ELSE LET r == remove_card(cs, CardObj(cache[k]), quantity)
                 IN IF r.raised THEN [cards |-> cs, ret |-> FALSE]
                    ELSE [cards |-> r.cards, ret |-> r.ret]

\* update_card_quantity: the entry is looked up under the card_name of the
\* record found; without an entry the card is added when new_quantity > 0,
\* with one it is removed through remove_card_from_deck when
\* new_quantity <= 0 and its quantity is overwritten otherwise
update_card_quantity(deck, cs, cache, card_name, new_quantity) ==
    IF deck = None THEN [cards |-> cs, ret |-> FALSE]
    ELSE LET k == find_card_by_name(cache, card_name)
         IN IF k = 0 THEN [cards |-> cs, ret |-> FALSE]
            ELSE LET i == find_card(cs, Str(cache[k].card_name))
                 IN IF i = 0
                    THEN IF new_quantity > 0
                         THEN add_card_to_deck(deck, cs, cache, card_name, new_quantity)
                         ELSE [cards |-> cs, ret |-> TRUE]
                    ELSE IF new_quantity <= 0
                         THEN remove_card_from_deck(deck, cs, cache, card_name, PyNone)
                         ELSE [cards |-> [cs EXCEPT ![i].quantity = new_quantity],
                               ret |-> TRUE]

\* str.strip() on the deck names of the model
Strip(s) == IF s = " " THEN "" ELSE s

\* word in type_line, for the type lines of the model
Contains(type_line, word) ==
    CASE type_line = "Basic Land - Mountain" -> word \in {"Basic", "Land"}
      [] type_line = "Land" -> word = "Land"
      [] OTHER -> FALSE

\* the exemption that is never granted
is_basic_land_never(type_line) == FALSE

\* card.type_line and 'Basic' in card.type_line and 'Land' in card.type_line
is_basic_land(type_line) ==
    Truthy(type_line) /\ Contains(type_line, "Basic") /\ Contains(type_line, "Land")

\* card.quantity > limit and not a basic land
over_limit(card, limit) ==
    card.quantity > limit /\ ~is_basic_land(card.type_line)

\* an entry of the errors or warnings list: the fixed text and the card
\* name the f-string appends to it
Message(text, card_name) == [text |-> text, card |-> card_name]

\* the loop that stops at the first entry over the limit
RECURSIVE copy_errors_first_only(_, _, _)
copy_errors_first_only(cs, limit, text) ==
    IF cs = <<>> THEN <<>>
    ELSE IF over_limit(Head(cs), limit)
         THEN <<Message(text, Head(cs).card_name)>>
         ELSE copy_errors_first_only(Tail(cs), limit, text)

\* for card in deck.cards: one error per entry over the limit, in deck order
RECURSIVE copy_errors(_, _, _)
copy_errors(cs, limit, text) ==
    IF cs = <<>> THEN <<>>
    ELSE (IF over_limit(Head(cs), limit)
          THEN <<Message(text, Head(cs).card_name)>> ELSE <<>>)
         \o copy_errors(Tail(cs), limit, text)

\* DeckController.validate_deck_format
validate_deck_format(deck, info, cs) ==
    IF deck = None
    THEN [valid |-> FALSE, errors |-> <<Message("No hay mazo actual", None)>>,
          warnings |-> <<>>]
    ELSE LET total == total_cards(cs)
             format_lower == Lower(info.format)
             basic ==
                 (IF Strip(info.name) = ""
                  THEN <<Message("El mazo debe tener un nombre", None)>> ELSE <<>>)
                 \o (IF total = 0
                     THEN <<Message("El mazo no puede estar vacío", None)>> ELSE <<>>)
             by_format ==
                 IF ~Truthy(info.format) THEN <<>>
                 ELSE CASE format_lower = "standard" ->
                             IF total < StandardCards
                             THEN <<Message("Standard requiere mínimo 60 cartas", None)>>
                             ELSE <<>>
                        [] format_lower \in {"commander", "edh"} ->
                             (IF total # CommanderCards
                              THEN <<Message("Commander requiere exactamente 100 cartas", None)>>
                              ELSE <<>>)
                             \o copy_errors(cs, CommanderCopies,
                                            "Commander permite máximo 1 copia de")
                        [] format_lower = "modern" ->
                             (IF total < ModernCards
                              THEN <<Message("Modern requiere mínimo 60 cartas", None)>>
                              ELSE <<>>)
                             \o copy_errors(cs, ModernCopies,
                                            "Modern permite máximo 4 copias de")
                        [] OTHER -> <<>>
             warnings ==
                 IF Truthy(info.format) /\ format_lower = "standard"
                    /\ total > StandardCards
                 THEN <<Message("Standard típicamente usa exactamente 60 cartas", None)>>
                 ELSE <<>>
             errors == basic \o by_format
         IN [valid |-> Len(errors) = 0, errors |-> errors, warnings |-> warnings]

--------------------------------------------------------------------------
(* ImageService (src/src/services/image_service.py) *)

\* Bytes are modelled in two chunks: the header Image.open reads to identify
\* the file, and the pixel data read when the image is first processed
\* (thumbnail, PhotoImage). "J" is a chunk of the JPEG, "x" is any other.
Jpeg == <<"J", "J">>
NoFile == <<"ENOENT">>          \* no file at the path
NetworkError == <<"error">>     \* requests.RequestException

URLs == {"u1", "u2"}
Paths == {"h1.jpg", "h2.jpg"}

\* the answers of the server: no answer, an empty body, the image, the
\* image cut short, a body that is no image
Responses == {NetworkError, <<>>, Jpeg, <<"J">>, <<"x">>}

\* open(cache_file, 'wb') and f.write(image_data): done, refused at open,
\* or failed after the file was opened
DiskOutcomes == {"ok", "open_fails", "write_fails"}

\* the size argument: None or a (width, height)
Sizes == {None, "size"}

\* cache_dir / f"{md5(url).hexdigest()}.jpg"
get_cache_filename(url) ==
    CASE url = "u1" -> "h1.jpg"
      [] url = "u2" -> "h2.jpg"

\* Image.open(file): the header identifies an image
opens(bytes) == bytes # NoFile /\ Len(bytes) >= 1 /\ bytes[1] = "J"

\* the pixel data can be read
loads(bytes) == bytes = Jpeg

\* a write that appends to the bytes already in the file
write_bytes_append(old, data) == old \o data

\* f.write(image_data) on a file opened with 'wb': the bytes go to the
\* start of the file, over the bytes another writer has put there since
\* this open truncated it
write_bytes(old, data) ==
    data \o SubSeq(old, Len(data) + 1, Len(old))

\* _save_image_to_cache: the files afterwards and the value returned
save_image_to_cache(fs, image_data, cache_file, disk) ==
    CASE disk = "ok" -> [files |-> [fs EXCEPT ![cache_file] = write_bytes(<<>>, image_data)],
                         ret |-> TRUE]
      [] disk = "write_fails" -> [files |-> [fs EXCEPT ![cache_file] = <<>>], ret |-> FALSE]
      [] OTHER -> [files |-> fs, ret |-> FALSE]

\* a lookup that never finds the file
load_image_from_cache_never(fs, cache_file) == [image |-> FALSE, bytes |-> <<>>]

\* _load_image_from_cache: the Image opened from the file, or None
load_image_from_cache(fs, cache_file) ==
    IF fs[cache_file] # NoFile /\ opens(fs[cache_file])
    THEN [image |-> TRUE, bytes |-> fs[cache_file]]
    ELSE [image |-> FALSE, bytes |-> <<>>]

\* _resize_image when a size is given, then ImageTk.PhotoImage(image) in its
\* try block: an image whose data cannot be read raises out of thumbnail,
\* and is reported as None by the conversion
to_photo_image(bytes, size) ==
    IF loads(bytes) THEN "PhotoImage"
    ELSE IF size # None THEN "raise" ELSE None

\* a lookup that fetches and stores the image on a miss
get_image_from_cache_only_or_fetch(fs, url, size) ==
    IF url = "" THEN [ret |-> None, files |-> fs, fetches |-> 0]
    ELSE LET cached == load_image_from_cache(fs, get_cache_filename(url))
         IN IF cached.image
            THEN [ret |-> to_photo_image(cached.bytes, size), files |-> fs, fetches |-> 0]
            ELSE [ret |-> to_photo_image(Jpeg, size),
                  files |-> [fs EXCEPT ![get_cache_filename(url)] = Jpeg],
                  fetches |-> 1]

\* get_image_from_cache_only
get_image_from_cache_only(fs, url, size) ==
    IF url = "" THEN [ret |-> None, files |-> fs, fetches |-> 0]
    ELSE LET cached == load_image_from_cache(fs, get_cache_filename(url))
         IN [ret |-> IF cached.image THEN to_photo_image(cached.bytes, size) ELSE None,
             files |-> fs, fetches |-> 0]

\* download_and_cache_image: the value returned, the files afterwards, the
\* number of requests sent and whether the body was stored
download_and_cache_image(fs, url, size, response, disk) ==
    IF url = "" THEN [ret |-> None, files |-> fs, fetches |-> 0, stored |-> FALSE]
    ELSE LET cache_file == get_cache_filename(url)
             cached == load_image_from_cache(fs, cache_file)
             saved == save_image_to_cache(fs, response, cache_file, disk)
         IN IF cached.image
            THEN [ret |-> to_photo_image(cached.bytes, size), files |-> fs,
                  fetches |-> 0, stored |-> FALSE]
            ELSE IF response = NetworkError \/ response = <<>>
            THEN [ret |-> None, files |-> fs, fetches |-> 1, stored |-> FALSE]
            ELSE [ret |-> IF opens(response) THEN to_photo_image(response, size)
                          ELSE None,
                  files |-> saved.files, fetches |-> 1, stored |-> saved.ret]

\* preload_image
preload_image(fs, url, response, disk) ==
    IF url = "" THEN [ret |-> FALSE, files |-> fs, fetches |-> 0]
    ELSE LET cache_file == get_cache_filename(url)
             saved == save_image_to_cache(fs, response, cache_file, disk)
         IN IF fs[cache_file] # NoFile
            THEN [ret |-> TRUE, files |-> fs, fetches |-> 0]
            ELSE IF response = NetworkError \/ response = <<>>
            THEN [ret |-> FALSE, files |-> fs, fetches |-> 1]
            ELSE [ret |-> saved.ret, files |-> saved.files, fetches |-> 1]

\* is_image_cached
is_image_cached(fs, url) ==
    IF url = "" THEN FALSE ELSE fs[get_cache_filename(url)] # NoFile

\* the *.jpg files of the cache directory
cache_files(fs) == {p \in Paths : fs[p] # NoFile}

\* a clear that counts the files and unlinks none
clear_cache_count_only(fs, removed) == [files |-> fs, ret |-> Cardinality(removed)]

\* clear_cache: the loop unlinks the files of the glob one by one and counts
\* them; an unlink that raises ends the loop in the except branch. removed
\* is the set of files unlinked by then: all of them when no unlink raised
clear_cache(fs, removed) ==
    [files |-> [p \in Paths |-> IF p \in removed THEN NoFile ELSE fs[p]],
     ret |-> Cardinality(removed)]

\* get_cache_count
get_cache_count(fs) == Cardinality(cache_files(fs))

\* the sum of st_size over a set of files, in chunks
RECURSIVE size_of(_, _)
size_of(fs, ps) ==
    IF ps = {} THEN 0
    ELSE LET p == CHOOSE q \in ps : TRUE
         IN Len(fs[p]) + size_of(fs, ps \ {p})

\* get_cache_size
get_cache_size(fs) == size_of(fs, cache_files(fs))

\* the cache directory ImageService.__init__ creates
EmptyCache == [p \in Paths |-> NoFile]

Threads == {1, 2}

\* a thread that is not in a call
Idle == [pc |-> "idle", url |-> "", body |-> <<>>, saw |-> "nothing",
         fetched |-> FALSE, wrote |-> FALSE]

\* no call is running in a thread and nothing has been written
NoThreads == [calls |-> [t \in Threads |-> Idle],
              last_write |-> [p \in Paths |-> NoFile]]

\* no image call has run and none is running
ImageIdle == files = EmptyCache /\ served = {} /\ threads = NoThreads

\* the collection file present, no search cached, no deck saved
StoreIdle == data_exists = TRUE /\ search_cache = {} /\ deck_dir = {}

--------------------------------------------------------------------------
(* Deck operations called directly on a Deck object *)

Start == [op |-> "init"]

\* the name and format kept while the controller has no deck
NoDeck == [name |-> "", format |-> None]

\* the copies held by the entries of a list, counted one by one
Copies(cs) == {x \in (1..Len(cs)) \X (1..MaxCopies) : x[2] <= cs[x[1]].quantity}

\* the decks the model explores
WithinBounds(cs) ==
    /\ \A i \in 1..Len(cs) : cs[i].quantity <= MaxCopies
    /\ Cardinality(Copies(cs)) <= MaxCopies

Init ==
    /\ cards = <<>>
    /\ current_deck = None
    /\ collection = <<>>
    /\ card_service = NotLoaded
    /\ deck_info = NoDeck
    /\ ImageIdle
    /\ StoreIdle
    /\ last = Start

\* deck.add_card(card, quantity)
AddCard ==
    \E c \in CardPool, q \in 1..MaxCopies :
        LET after == add_card(cards, c, q)
        IN /\ WithinBounds(after)
           /\ cards' = after
           /\ last' = [op |-> "add_card"]
           /\ UNCHANGED <<current_deck, collection, card_service, deck_info, imageVars, storeVars>>

\* deck.remove_card(card_name, quantity)
RemoveCard ==
    \E n \in Names, q \in 1..MaxCopies :
        LET i == find_card(cards, Str(n))
            r == remove_card(cards, Str(n), PyInt(q))
        IN /\ cards' = r.cards
           /\ last' = [op |-> "remove_card",
                       quantity |-> q,
                       ret |-> r.ret,
                       found |-> i # 0,
                       before |-> IF i # 0 THEN cards[i].quantity ELSE 0,
                       unchanged |-> r.cards = cards,
                       deleted |-> i # 0 /\ r.cards = SubSeq(cards, 1, i - 1)
                                       \o SubSeq(cards, i + 1, Len(cards))]
           /\ UNCHANGED <<current_deck, collection, card_service, deck_info, imageVars, storeVars>>

Next == AddCard \/ RemoveCard

Spec == Init /\ [][Next]_vars

--------------------------------------------------------------------------
(* DeckController over a loaded collection *)

InitCollection ==
    /\ cards = <<>>
    /\ current_deck = None
    /\ collection \in Collections
    /\ card_service = NotLoaded
    /\ deck_info = NoDeck
    /\ ImageIdle
    /\ StoreIdle
    /\ last = Start

\* controller.create_new_deck(name)
CreateNewDeck ==
    /\ current_deck' = "deck"
    /\ cards' = <<>>
    /\ deck_info' = [name |-> "deck", format |-> None]
    /\ last' = [op |-> "create_new_deck", ret |-> TRUE]
    /\ UNCHANGED <<collection, card_service, imageVars, storeVars>>

\* the quantity of the deck entry found under a name, 0 when there is none
QuantityOf(cs, name) ==
    LET i == find_card(cs, Str(name)) IN IF i = 0 THEN 0 ELSE cs[i].quantity

\* the card service after a controller call: find_card_by_name loads the
\* cards when the name index is None, and is not reached without a deck
lookup_service(deck, service, file) ==
    IF deck = None THEN service ELSE load_cards(service, file)

\* the decks the model builds through the controller
WithinHeld(cs) ==
    /\ \A i \in 1..Len(cs) : cs[i].quantity <= MaxHeld
    /\ Cardinality({x \in (1..Len(cs)) \X (1..MaxHeld) : x[2] <= cs[x[1]].quantity})
          <= MaxHeld

\* controller.add_card_to_deck(card_name, quantity)
AddCardToDeck ==
    \E n \in Names, q \in 1..MaxCopies :
        LET service == lookup_service(current_deck, card_service, collection)
            k == find_card_by_name(collection, n)
            r == add_card_to_deck(current_deck, cards, service.cards_cache, n, q)
        IN /\ WithinHeld(r.cards)
           /\ cards' = r.cards
           /\ card_service' = service
           /\ last' = [op |-> "add_card_to_deck",
                       ret |-> r.ret,
                       held |-> IF current_deck # None /\ k # 0
                                THEN QuantityOf(cards, collection[k].card_name)
                                ELSE 0,
                       unchanged |-> r.cards = cards]
           /\ UNCHANGED <<current_deck, collection, deck_info, imageVars, storeVars>>

\* controller.remove_card_from_deck(card_name) and (card_name, quantity)
RemoveCardFromDeck ==
    \E n \in Names, quantity \in {PyNone} \cup {PyInt(q) : q \in 1..MaxCopies} :
        LET k == find_card_by_name(collection, n)
            r == remove_card_from_deck(current_deck, cards, collection, n, quantity)
        IN /\ cards' = r.cards
           /\ card_service' = lookup_service(current_deck, card_service, collection)
           /\ last' = [op |-> "remove_card_from_deck",
                       ret |-> r.ret,
                       all |-> quantity = PyNone,
                       in_collection |-> k # 0,
                       had_entry |-> current_deck # None /\ k # 0
                                     /\ QuantityOf(cards, collection[k].card_name) > 0,
                       copies_removed |-> k # 0
                                     /\ QuantityOf(r.cards, collection[k].card_name)
                                          < QuantityOf(cards, collection[k].card_name),
                       entry_left |-> k # 0
                                     /\ find_card(r.cards, Str(collection[k].card_name)) # 0]
           /\ UNCHANGED <<current_deck, collection, deck_info, imageVars, storeVars>>

NextController == CreateNewDeck \/ AddCardToDeck \/ RemoveCardFromDeck

SpecController == InitCollection /\ [][NextController]_vars

\* controller.update_card_quantity(card_name, new_quantity)
UpdateCardQuantity ==
    \E n \in Names, q \in (0 - 1)..MaxCopies :
        LET k == find_card_by_name(collection, n)
            r == update_card_quantity(current_deck, cards, collection, n, q)
        IN /\ WithinHeld(r.cards)
           /\ cards' = r.cards
           /\ card_service' = lookup_service(current_deck, card_service, collection)
           /\ last' = [op |-> "update_card_quantity",
                       ret |-> r.ret,
                       new_quantity |-> q,
                       applies |-> current_deck # None /\ k # 0,
                       had_entry |-> current_deck # None /\ k # 0
                                     /\ find_card(cards, Str(collection[k].card_name)) # 0,
                       entry_left |-> k # 0
                                     /\ find_card(r.cards, Str(collection[k].card_name)) # 0,
                       held |-> IF k # 0
                                THEN QuantityOf(r.cards, collection[k].card_name)
                                ELSE 0]
           /\ UNCHANGED <<current_deck, collection, deck_info, imageVars, storeVars>>

NextUpdate == CreateNewDeck \/ AddCardToDeck \/ UpdateCardQuantity

SpecUpdate == InitCollection /\ [][NextUpdate]_vars

--------------------------------------------------------------------------
(* DeckService.compare_with_collection on a deck built with Deck.add_card *)

\* deck_service.compare_with_collection(deck): load_cards() first, then the
\* comparison over the list it returned
Compare ==
    LET service == load_cards(card_service, collection)
        result == compare_with_collection(cards, service.cards_cache)
    IN /\ card_service' = service
       /\ last' = [op |-> "compare_with_collection",
                   result |-> result,
                   was_loaded |-> card_service.loaded,
                   service_same |-> service = card_service,
                   repeated |-> last.op = "compare_with_collection",
                   same_result |-> last.op = "compare_with_collection"
                                   => result = last.result]
       /\ UNCHANGED <<cards, current_deck, collection, deck_info, imageVars, storeVars>>

NextCompare == AddCard \/ Compare

SpecCompare == InitCollection /\ [][NextCompare]_vars

--------------------------------------------------------------------------
(* DeckController.validate_deck_format on a deck loaded from a file *)

\* the cards of the loaded decks: name and type line
TypedPool ==
    {<<"Bolt", "Instant">>, <<"Rayo", None>>, <<"Tower", "Land">>,
     <<"Mountain", "Basic Land - Mountain">>}

\* the quantities of the loaded decks' entries
Quantities == {1, 2, 5, 55, 98, 99}

Entry(n, t, q) ==
    [card_name |-> n, english_card_name |-> None, type_line |-> t, quantity |-> q]

Entries == {Entry(t[1], t[2], q) : t \in TypedPool, q \in Quantities}

\* one entry per card name, as Deck.add_card keeps it
LoadedDecks ==
    {cs \in SeqsUpTo(Entries, MaxEntries) :
        \A i, j \in 1..Len(cs) : cs[i].card_name = cs[j].card_name => i = j}

DeckNames == {"Burn", " "}
Formats == {None, "standard", "modern", "Modern", "commander", "EDH", "legacy"}

InitLoaded ==
    /\ cards \in LoadedDecks
    /\ current_deck \in {None, "deck"}
    /\ current_deck = None => cards = <<>>
    /\ deck_info \in IF current_deck = None THEN {NoDeck}
                     ELSE [name : DeckNames, format : Formats]
    /\ collection = <<>>
    /\ card_service = NotLoaded
    /\ ImageIdle
    /\ StoreIdle
    /\ last = Start

\* controller.validate_deck_format()
ValidateDeckFormat ==
    /\ last' = [op |-> "validate_deck_format",
                result |-> validate_deck_format(current_deck, deck_info, cards)]
    /\ UNCHANGED <<cards, current_deck, collection, card_service, deck_info, imageVars, storeVars>>

NextValidate == ValidateDeckFormat

SpecValidate == InitLoaded /\ [][NextValidate]_vars

--------------------------------------------------------------------------
(* ImageService called from the single UI thread *)

\* the bytes at the cache path of a URL, NoFile for the empty URL
FileOf(fs, url) == IF url = "" THEN NoFile ELSE fs[get_cache_filename(url)]

\* the paths at which a call has created a file
Created(before, after) == {p \in Paths : before[p] = NoFile /\ after[p] # NoFile}

\* image_service.get_image_from_cache_only(url, size)
GetImageFromCacheOnly ==
    \E url \in URLs \cup {""}, size \in Sizes :
        LET r == get_image_from_cache_only(files, url, size)
        IN /\ files' = r.files
           /\ last' = [op |-> "get_image_from_cache_only", url |-> url,
                       ret |-> r.ret, fetches |-> r.fetches,
                       before |-> FileOf(files, url),
                       created |-> Created(files, r.files)]
           /\ UNCHANGED <<deckVars, storeVars, served, threads>>

\* image_service.download_and_cache_image(url, size), with the answer of the
\* server and the outcome of the write when the call gets that far
DownloadAndCacheImage ==
    \E url \in URLs \cup {""}, size \in Sizes, response \in Responses,
       disk \in DiskOutcomes :
        LET r == download_and_cache_image(files, url, size, response, disk)
            saving == r.fetches = 1 /\ response # NetworkError /\ response # <<>>
        IN /\ files' = r.files
           /\ served' = IF r.ret = "PhotoImage"
                        THEN served \cup {<<url, get_cache_filename(url)>>}
                        ELSE served
           /\ last' = [op |-> "download_and_cache_image", url |-> url,
                       ret |-> r.ret, fetches |-> r.fetches,
                       before |-> FileOf(files, url),
                       response |-> IF r.fetches = 1 THEN response ELSE <<"unused">>,
                       disk |-> IF saving THEN disk ELSE "unused",
                       served_at |-> {x[2] : x \in {y \in served : y[1] = url}}]
           /\ UNCHANGED <<deckVars, storeVars, threads>>

\* image_service.preload_image(url)
PreloadImage ==
    \E url \in URLs \cup {""}, response \in Responses, disk \in DiskOutcomes :
        LET r == preload_image(files, url, response, disk)
        IN /\ files' = r.files
           /\ last' = [op |-> "preload_image", url |-> url, ret |-> r.ret,
                       fetches |-> r.fetches, before |-> FileOf(files, url)]
           /\ UNCHANGED <<deckVars, storeVars, served, threads>>

\* image_service.is_image_cached(url)
IsImageCached ==
    \E url \in URLs \cup {""} :
        /\ last' = [op |-> "is_image_cached", url |-> url,
                    ret |-> is_image_cached(files, url)]
        /\ UNCHANGED <<deckVars, storeVars, imageVars>>

\* image_service.clear_cache(), which unlinks every file or stops at an
\* unlink that fails
ClearCache ==
    \E removed \in SUBSET cache_files(files) :
        LET r == clear_cache(files, removed)
        IN /\ files' = r.files
           /\ served' = {x \in served : x[2] \notin removed}
           /\ last' = [op |-> "clear_cache", ret |-> r.ret,
                       existed |-> get_cache_count(files),
                       failed |-> removed # cache_files(files)]
           /\ UNCHANGED <<deckVars, storeVars, threads>>

\* the cached file of an image is damaged on disk: cut short, or its
\* header overwritten
CorruptFile ==
    \E p \in Paths, bytes \in {<<"J">>, <<"x", "J">>} :
        /\ files[p] = Jpeg
        /\ files' = [files EXCEPT ![p] = bytes]
        /\ last' = [op |-> "corrupt", path |-> p]
        /\ UNCHANGED <<deckVars, storeVars, served, threads>>

NextImage ==
    \/ GetImageFromCacheOnly
    \/ DownloadAndCacheImage
    \/ PreloadImage
    \/ IsImageCached
    \/ ClearCache
    \/ CorruptFile

SpecImage == Init /\ [][NextImage]_vars

--------------------------------------------------------------------------
(* download_and_cache_image called from two threads, one call each; a step
   is what a thread does between two points where the other can run *)

\* the thread's call, changed
Step(t, call) == [threads EXCEPT !.calls[t] = call]

\* the call enters download_and_cache_image(url)
Call(t) ==
    \E url \in URLs :
        /\ threads.calls[t].pc = "idle"
        /\ threads' = Step(t, [threads.calls[t] EXCEPT !.pc = "check", !.url = url])
        /\ UNCHANGED <<deckVars, storeVars, files, served, last>>

\* image = self._load_image_from_cache(cache_file)
CheckCache(t) ==
    LET call == threads.calls[t]
        cache_file == get_cache_filename(call.url)
        cached == load_image_from_cache(files, cache_file)
    IN /\ call.pc = "check"
       /\ threads' = Step(t, [call EXCEPT
              !.pc = IF cached.image THEN "convert" ELSE "download",
              !.body = cached.bytes,
              !.saw = IF cached.image THEN "image"
                      ELSE IF files[cache_file] = NoFile THEN "no file"
                      ELSE "undecodable"])
       /\ UNCHANGED <<deckVars, storeVars, files, served, last>>

\* image_data = self._download_image(url, timeout)
Download(t) ==
    \E response \in Responses :
        LET call == threads.calls[t]
        IN /\ call.pc = "download"
           /\ threads' = Step(t, [call EXCEPT
                  !.fetched = TRUE,
                  !.pc = IF response = NetworkError \/ response = <<>>
                         THEN "done" ELSE "open",
                  !.body = IF response = NetworkError THEN <<>> ELSE response])
           /\ UNCHANGED <<deckVars, storeVars, files, served, last>>

\* open(cache_file, 'wb'): the file is created or emptied, or the open fails
OpenCacheFile(t) ==
    LET call == threads.calls[t]
        cache_file == get_cache_filename(call.url)
    IN /\ call.pc = "open"
       /\ \/ /\ files' = [files EXCEPT ![cache_file] = <<>>]
             /\ threads' = Step(t, [call EXCEPT !.pc = "write"])
          \/ /\ files' = files
             /\ threads' = Step(t, [call EXCEPT !.pc = "convert"])
       /\ UNCHANGED <<deckVars, storeVars, served, last>>

\* f.write(image_data) and the close of the file, or the write fails
WriteCacheFile(t) ==
    LET call == threads.calls[t]
        cache_file == get_cache_filename(call.url)
    IN /\ call.pc = "write"
       /\ \/ /\ files' = [files EXCEPT
                    ![cache_file] = write_bytes(files[cache_file], call.body)]
             /\ threads' = [calls |-> [threads.calls EXCEPT
                                ![t] = [call EXCEPT !.pc = "convert", !.wrote = TRUE]],
                            last_write |-> [threads.last_write EXCEPT
                                ![cache_file] = call.body]]
          \/ /\ files' = files
             /\ threads' = Step(t, [call EXCEPT !.pc = "convert"])
       /\ UNCHANGED <<deckVars, storeVars, served, last>>

\* Image.open of the downloaded bytes, PhotoImage, return
Convert(t) ==
    LET call == threads.calls[t]
    IN /\ call.pc = "convert"
       /\ threads' = Step(t, [call EXCEPT !.pc = "done"])
       /\ UNCHANGED <<deckVars, storeVars, files, served, last>>

NextRace ==
    \E t \in Threads :
        \/ Call(t)
        \/ CheckCache(t)
        \/ Download(t)
        \/ OpenCacheFile(t)
        \/ WriteCacheFile(t)
        \/ Convert(t)

SpecRace == Init /\ [][NextRace]_vars

--------------------------------------------------------------------------
(* CardService.search_cards and CardController (card_controller.py) *)

Queries == {"", "BOL"}

\* sub in s, for the lower-cased queries and names of the model
InStr(sub, s) == sub = "" \/ sub = s \/ (sub = "bol" /\ s = "bolt")

\* the test search_cards applies to one record
matches(card, query_lower) ==
    \/ InStr(query_lower, Lower(card.card_name))
    \/ /\ Truthy(card.english_card_name)
       /\ InStr(query_lower, Lower(card.english_card_name))

\* the loop of search_cards from record i on: append a match, then break
\* when len(results) >= limit
RECURSIVE search_from(_, _, _, _, _)
search_from(cache, query_lower, limit, i, results) ==
    IF i > Len(cache) THEN results
    ELSE IF matches(cache[i], query_lower)
         THEN LET appended == Append(results, cache[i])
              IN IF Len(appended) >= limit THEN appended
                 ELSE search_from(cache, query_lower, limit, i + 1, appended)
         ELSE search_from(cache, query_lower, limit, i + 1, results)

\* CardService.search_cards(query, limit) over the list load_cards returned
search_cards(cache, query, limit) ==
    search_from(cache, Lower(query), limit, 1, <<>>)

\* load_cards raises FileNotFoundError: nothing cached yet and no file
load_raises(service, exists) == ~service.loaded /\ ~exists

\* results[:limit]
Slice(list, limit) ==
    SubSeq(list, 1, IF limit < Len(list) THEN limit ELSE Len(list))

\* f"{query.lower()}_{limit}"
cache_key(query, limit) == <<Lower(query), limit>>

\* the entries of _search_cache stored under a key
cached(sc, key) == {e \in sc : e.key = key}

\* CardController.search_cards(query, limit): the cached list when there is
\* one, else the service's search with its default limit, cut to limit when
\* limit > 0 and stored; [] when the service raises
controller_search_cards(service, exists, file, sc, query, limit) ==
    LET key == cache_key(query, limit)
    IN IF cached(sc, key) # {}
       THEN [ret |-> (CHOOSE e \in cached(sc, key) : TRUE).results,
             search_cache |-> sc, card_service |-> service, stored |-> TRUE]
       ELSE IF load_raises(service, exists)
       THEN [ret |-> <<>>, search_cache |-> sc, card_service |-> service,
             stored |-> FALSE]
       ELSE LET loaded == load_cards(service, file)
                found == search_cards(loaded.cards_cache, query, DefaultLimit)
                results == IF limit > 0 THEN Slice(found, limit) ELSE found
            IN [ret |-> results,
                search_cache |-> sc \cup {[key |-> key, results |-> results]},
                card_service |-> loaded, stored |-> TRUE]

\* the order of str for the card names of the model
NameRank(n) ==
    CASE n = "Bolt" -> 1
      [] n = "Rayo" -> 2
      [] n = "bolt" -> 3
      [] OTHER -> 0

\* x placed behind the elements it does not come before when sorting by
\* card_name (a stable sort)
RECURSIVE insert_by_name(_, _, _)
insert_by_name(sorted, x, reverse) ==
    IF sorted = <<>> THEN <<x>>
    ELSE IF IF reverse
            THEN NameRank(x.card_name) > NameRank(Head(sorted).card_name)
            ELSE NameRank(x.card_name) < NameRank(Head(sorted).card_name)
         THEN <<x>> \o sorted
    ELSE <<Head(sorted)>> \o insert_by_name(Tail(sorted), x, reverse)

\* list.sort(key=lambda c: c.card_name or '', reverse=reverse)
RECURSIVE sort_by_name(_, _)
sort_by_name(list, reverse) ==
    IF list = <<>> THEN <<>>
    ELSE insert_by_name(sort_by_name(SubSeq(list, 1, Len(list) - 1), reverse),
                        list[Len(list)], reverse)

\* the filters of advanced_search: the filter_by_* methods are not defined
\* by CardService, get_simplified_cmc is not defined by Card and is_creature
\* is a property, so the first four raise on any list and the others on the
\* first record of a non-empty list
filter_raises(filter, results) ==
    \/ filter \in {"colors", "type", "rarity", "set"}
    \/ filter \in {"min_cmc", "max_cmc", "creatures_only"} /\ results # <<>>

\* the filters dicts handed in: one filter with the default order and
\* limit, or no filter with any order and limit
FilterSets ==
    {f \in [query : {None} \cup Queries,
            filter : {"none", "colors", "type", "rarity", "set", "min_cmc",
                      "max_cmc", "creatures_only"},
            sort_by : {"name", "cmc", "rarity"},
            sort_desc : BOOLEAN, limit : {0, 1, AdvancedLimit}] :
        f.filter # "none" =>
            f.sort_by = "name" /\ ~f.sort_desc /\ f.limit = AdvancedLimit}

\* CardController.advanced_search(filters): the list to work on is the one
\* search_cards(query, limit=0) returns or the one load_cards returns; it
\* is filtered into a new list, sorted in place and cut to limit. Sorting
\* by cmc, the key raises on the first record; the records of the model
\* have no rarity, so every rarity key is 0 and the stable sort keeps the
\* order
advanced_search(service, exists, file, sc, f) ==
    LET with_query == Truthy(f.query)
        start == IF with_query
                 THEN controller_search_cards(service, exists, file, sc, f.query, 0)
                 ELSE IF load_raises(service, exists)
                 THEN [ret |-> <<>>, search_cache |-> sc, card_service |-> service,
                       stored |-> FALSE]
                 ELSE [ret |-> load_cards(service, file).cards_cache,
                       search_cache |-> sc,
                       card_service |-> load_cards(service, file), stored |-> TRUE]
        raised == \/ ~with_query /\ load_raises(service, exists)
                  \/ filter_raises(f.filter, start.ret)
                  \/ f.filter = "none" /\ f.sort_by = "cmc" /\ start.ret # <<>>
        in_place == ~raised /\ f.filter = "none" /\ start.stored
        sorted == IF f.sort_by = "name" THEN sort_by_name(start.ret, f.sort_desc)
                  ELSE start.ret
    IN [ret |-> IF raised \/ f.filter # "none" THEN <<>>
                ELSE IF f.limit > 0 THEN Slice(sorted, f.limit) ELSE sorted,
        search_cache |->
            IF in_place /\ with_query
            THEN {e \in start.search_cache : e.key # cache_key(f.query, 0)}
                     \cup {[key |-> cache_key(f.query, 0), results |-> sorted]}
            ELSE start.search_cache,
        card_service |->
            IF in_place /\ ~with_query
            THEN [start.card_service EXCEPT !.cards_cache = sorted]
            ELSE start.card_service]

InitSearch ==
    /\ cards = <<>>
    /\ current_deck = None
    /\ deck_info = NoDeck
    /\ data_exists \in BOOLEAN
    /\ collection \in IF data_exists THEN SeqsUpTo(CardPool, MaxRecords) ELSE {<<>>}
    /\ card_service = NotLoaded
    /\ search_cache = {}
    /\ deck_dir = {}
    /\ ImageIdle
    /\ last = Start

\* card_service.search_cards(query, limit)
SearchCards ==
    \E query \in Queries, limit \in {0, 1, DefaultLimit} :
        LET raised == load_raises(card_service, data_exists)
            service == IF raised THEN card_service
                       ELSE load_cards(card_service, collection)
        IN /\ card_service' = service
           /\ last' = [op |-> "search_cards", query |-> query, limit |-> limit,
                       raised |-> raised,
                       ret |-> IF raised THEN <<>>
                               ELSE search_cards(service.cards_cache, query, limit)]
           /\ UNCHANGED <<cards, current_deck, collection, deck_info, imageVars,
                          storeVars>>

\* card_service.find_card_by_name(name): the load position of the record
FindCardByName ==
    \E name \in Names :
        LET raised == load_raises(card_service, data_exists)
            service == IF raised THEN card_service
                       ELSE load_cards(card_service, collection)
        IN /\ card_service' = service
           /\ last' = [op |-> "find_card_by_name", name |-> name,
                       raised |-> raised,
                       ret |-> IF raised THEN 0
                               ELSE service.cards_by_name[Lower(name)]]
           /\ UNCHANGED <<cards, current_deck, collection, deck_info, imageVars,
                          storeVars>>

\* card_controller.search_cards(query, limit)
ControllerSearchCards ==
    \E query \in Queries, limit \in {0, 1} :
        LET r == controller_search_cards(card_service, data_exists, collection,
                                         search_cache, query, limit)
        IN /\ card_service' = r.card_service
           /\ search_cache' = r.search_cache
           /\ last' = [op |-> "controller_search_cards", query |-> query,
                       limit |-> limit, raised |-> FALSE, ret |-> r.ret]
           /\ UNCHANGED <<cards, current_deck, collection, deck_info, imageVars,
                          data_exists, deck_dir>>

\* card_controller.advanced_search(filters)
AdvancedSearch ==
    \E f \in FilterSets :
        LET r == advanced_search(card_service, data_exists, collection,
                                 search_cache, f)
        IN /\ card_service' = r.card_service
           /\ search_cache' = r.search_cache
           /\ last' = [op |-> "advanced_search", raised |-> FALSE, ret |-> r.ret]
           /\ UNCHANGED <<cards, current_deck, collection, deck_info, imageVars,
                          data_exists, deck_dir>>

NextSearch ==
    SearchCards \/ FindCardByName \/ ControllerSearchCards \/ AdvancedSearch

SpecSearch == InitSearch /\ [][NextSearch]_vars

\* the card service alone
SpecLookup == InitSearch /\ [][SearchCards \/ FindCardByName]_vars

--------------------------------------------------------------------------
(* DeckService._safe_filename, save_deck, load_deck, delete_deck *)

\* the characters of the deck names of the model: a letter, a space and a
\* character that is neither alphanumeric nor one of "_- "
Alphabet == {"a", " ", "/"}

\* the loop of _safe_filename: a character is kept when char.isalnum() or
\* char in "_- ", every other character becomes "_"
replace_unsafe(name) ==
    [i \in 1..Len(name) |->
        IF name[i] \in {"a", "_", "-", " "} THEN name[i] ELSE "_"]

\* str.strip()
RECURSIVE strip(_)
strip(s) ==
    IF s = <<>> THEN s
    ELSE IF Head(s) = " " THEN strip(Tail(s))
    ELSE IF s[Len(s)] = " " THEN strip(SubSeq(s, 1, Len(s) - 1))
    ELSE s

\* str.replace("  ", " "): one pass from the left over non-overlapping
\* pairs of spaces
RECURSIVE replace_pairs(_)
replace_pairs(s) ==
    IF Len(s) < 2 THEN s
    ELSE IF s[1] = " " /\ s[2] = " "
         THEN <<" ">> \o replace_pairs(SubSeq(s, 3, Len(s)))
         ELSE <<s[1]>> \o replace_pairs(Tail(s))

\* str.replace(" ", "-")
replace_spaces(s) == [i \in 1..Len(s) |-> IF s[i] = " " THEN "-" ELSE s[i]]

\* DeckService._safe_filename(name)
safe_filename(name) ==
    replace_spaces(replace_pairs(strip(replace_unsafe(name))))

\* self._safe_filename(deck.name) + '.json'
deck_filename(name) == Append(safe_filename(name), ".json")

\* deck_service._safe_filename(name)
SafeFilename ==
    \E name \in SeqsUpTo(Alphabet, MaxName) :
        /\ last' = [op |-> "safe_filename", name |-> name,
                    ret |-> safe_filename(name)]
        /\ UNCHANGED <<deckVars, imageVars, storeVars>>

SpecFilename == Init /\ [][SafeFilename]_vars

\* the decks handed to save_deck: a name and the entries
SavedDecks ==
    [name : SeqsUpTo(Alphabet, MaxSavedName),
     cards : {<<>>, <<Card("Bolt", None, 1)>>}]

\* the files of decks_dir with a given name
stored(dir, filename) == {e \in dir : e.filename = filename}

\* DeckService.save_deck(deck): open(file_path, 'w') and json.dump create
\* or replace the file; False when the file cannot be opened
save_deck(dir, deck, opens_file) ==
    IF opens_file
    THEN [deck_dir |-> (dir \ stored(dir, deck_filename(deck.name)))
                          \cup {[filename |-> deck_filename(deck.name),
                                 deck |-> deck]},
          ret |-> TRUE]
    ELSE [deck_dir |-> dir, ret |-> FALSE]

\* DeckService.load_deck(filename): the deck of the file, None without one
load_deck(dir, filename) ==
    IF stored(dir, filename) = {} THEN None
    ELSE (CHOOSE e \in stored(dir, filename) : TRUE).deck

\* DeckService.delete_deck(filename)
delete_deck(dir, filename) ==
    [deck_dir |-> dir \ stored(dir, filename),
     ret |-> stored(dir, filename) # {}]

\* deck_service.save_deck(deck)
SaveDeck ==
    \E deck \in SavedDecks, opens_file \in BOOLEAN :
        LET r == save_deck(deck_dir, deck, opens_file)
        IN /\ Cardinality(r.deck_dir) <= MaxSaved
           /\ deck_dir' = r.deck_dir
           /\ last' = [op |-> "save_deck", deck |-> deck, ret |-> r.ret,
                       filename |-> deck_filename(deck.name),
                       after_save |-> last.op = "save_deck" /\ last.ret,
                       previous |-> IF last.op = "save_deck" /\ last.ret
                                    THEN [deck |-> last.deck, filename |-> last.filename]
                                    ELSE None]
           /\ UNCHANGED <<deckVars, imageVars, data_exists, search_cache>>

\* deck_service.delete_deck(filename)
DeleteDeck ==
    \E name \in SeqsUpTo(Alphabet, MaxSavedName) :
        LET r == delete_deck(deck_dir, deck_filename(name))
        IN /\ deck_dir' = r.deck_dir
           /\ last' = [op |-> "delete_deck", ret |-> r.ret]
           /\ UNCHANGED <<deckVars, imageVars, data_exists, search_cache>>

NextSave == SaveDeck \/ DeleteDeck

SpecSave == Init /\ [][NextSave]_vars

--------------------------------------------------------------------------
(* DeckService.export_deck_to_txt and import_deck_from_txt *)

\* the lines of a deck text file: "// text", an empty line, a line without
\* a space, and "<count> <name>" where count is what stands before the
\* first space, rstrip('x') applied: an int literal or not
Comment(text) == [kind |-> "comment", text |-> text]
Blank == [kind |-> "blank"]
Word == [kind |-> "word"]
CardLine(count, name) == [kind |-> "card", count |-> count, name |-> name]

\* the sections of the exported file, in the order they are written
SectionTypes ==
    <<"Creature", "Instant", "Sorcery", "Enchantment", "Artifact",
      "Planeswalker", "Land">>
SectionHeaders ==
    <<"Criaturas", "Instantáneos", "Conjuros", "Encantamientos", "Artefactos",
      "Planeswalkers", "Tierras">>

\* card_type.lower() in type_line.lower(), for the type lines of the model
HasType(type_line, card_type) ==
    CASE type_line = "Instant" -> card_type = "Instant"
      [] type_line = "Artifact Creature - Golem" -> card_type \in {"Artifact", "Creature"}
      [] type_line = "Land" -> card_type = "Land"
      [] type_line = "Basic Land - Mountain" -> card_type = "Land"
      [] OTHER -> FALSE

\* Deck.get_cards_by_type(card_type)
get_cards_by_type(cs, card_type) ==
    LET Test(card) == Truthy(card.type_line) /\ HasType(card.type_line, card_type)
    IN SelectSeq(cs, Test)

\* the entries that are in none of the groups
other_cards(cs) ==
    LET Test(card) ==
            \A s \in 1..Len(SectionTypes) :
                \A i \in 1..Len(get_cards_by_type(cs, SectionTypes[s])) :
                    get_cards_by_type(cs, SectionTypes[s])[i] # card
    IN SelectSeq(cs, Test)

\* the lines f"{card.quantity}x {card.card_name}\n" of the entries of a
\* group, sorted by card_name
card_lines(group) ==
    LET sorted == sort_by_name(group, FALSE)
    IN [i \in 1..Len(sorted) |->
           CardLine(PyInt(sorted[i].quantity), sorted[i].card_name)]

\* one section: nothing for an empty group, else header, entries, empty line
section(header, group) ==
    IF group = <<>> THEN <<>>
    ELSE <<Comment(header)>> \o card_lines(group) \o <<Blank>>

RECURSIVE sections_from(_, _)
sections_from(cs, s) ==
    IF s > Len(SectionTypes) THEN <<>>
    ELSE section(SectionHeaders[s], get_cards_by_type(cs, SectionTypes[s]))
             \o sections_from(cs, s + 1)

\* DeckService.export_deck_to_txt: the lines written to the file
export_deck_to_txt(info, cs) ==
    <<Comment(info.name), Comment("Formato"), Blank>>
        \o sections_from(cs, 1)
        \o (IF other_cards(cs) = <<>> THEN <<>>
            ELSE <<Comment("Otros")>> \o card_lines(other_cards(cs)))

\* the loop of import_deck_from_txt from line i on
RECURSIVE import_from(_, _, _, _)
import_from(lines, i, cache, cs) ==
    IF i > Len(lines) THEN cs
    ELSE IF lines[i].kind # "card" THEN import_from(lines, i + 1, cache, cs)
    ELSE IF lines[i].count.kind # "int" THEN import_from(lines, i + 1, cache, cs)
    ELSE LET k == find_card_by_name(cache, lines[i].name)
         IN IF k = 0 THEN import_from(lines, i + 1, cache, cs)
            ELSE import_from(lines, i + 1, cache,
                             add_card(cs, cache[k], lines[i].count.n))

\* DeckService.import_deck_from_txt: the cards of the deck returned
import_deck_from_txt(lines, cache) == import_from(lines, 1, cache, <<>>)

\* the decks that are exported: one entry per card name; the collection
\* of InitExport holds every card of them
ExportDecks ==
    {cs \in SeqsUpTo({Entry(n, t, q) :
                         n \in {"Bolt", "Rayo"},
                         t \in {"Instant", "Artifact Creature - Golem", None},
                         q \in 1..2}, MaxEntries) :
        \A i, j \in 1..Len(cs) : cs[i].card_name = cs[j].card_name => i = j}

\* the text files that are imported
ImportFiles ==
    SeqsUpTo({Comment("Mazo"), Blank, Word}
                 \cup {CardLine(c, n) :
                          c \in {PyInt(0 - 1), PyInt(0), PyInt(2), Str("xx")},
                          n \in {"Bolt", "Rayo"}},
             MaxLines)

InitExport ==
    /\ cards \in ExportDecks
    /\ current_deck = "deck"
    /\ deck_info = [name |-> "Burn", format |-> None]
    /\ collection = <<Card("Bolt", None, 1), Card("Rayo", None, 1)>>
    /\ card_service = NotLoaded
    /\ ImageIdle
    /\ StoreIdle
    /\ last = Start

\* deck_service.export_deck_to_txt(deck, file_path)
ExportDeckToTxt ==
    /\ last' = [op |-> "export_deck_to_txt", ret |-> TRUE,
                lines |-> export_deck_to_txt(deck_info, cards)]
    /\ UNCHANGED <<deckVars, imageVars, storeVars>>

\* deck_service.import_deck_from_txt(file_path, deck_name), of a text file
\* or of the file the last call exported
ImportDeckFromTxt ==
    \E exported \in BOOLEAN :
        \E lines \in IF exported
                     THEN IF last.op = "export_deck_to_txt" THEN {last.lines} ELSE {}
                     ELSE ImportFiles :
            LET service == load_cards(card_service, collection)
            IN /\ card_service' = service
               /\ last' = [op |-> "import_deck_from_txt", exported |-> exported,
                           deck |-> import_deck_from_txt(lines, service.cards_cache)]
               /\ UNCHANGED <<cards, current_deck, collection, deck_info,
                              imageVars, storeVars>>

NextExport == ExportDeckToTxt \/ ImportDeckFromTxt

SpecExport == InitExport /\ [][NextExport]_vars

--------------------------------------------------------------------------
(* Properties of Deck *)

\* C1: after any sequence of add_card and remove_card calls, total_cards
\* equals the sum of the quantities of the entries currently in the deck.
C1_TotalCardsIsSum == total_cards(cards) = Cardinality(Copies(cards))

\* a remove_card call that took copies away and left a non-empty deck
C1_Witness ==
    /\ last.op = "remove_card"
    /\ last.ret
    /\ Len(cards) >= 1
    /\ total_cards(cards) >= 2

\* the lower-cased names of a card
Identity(c) ==
    {Lower(c.card_name)} \cup
    (IF Truthy(c.english_card_name) THEN {Lower(c.english_card_name)} ELSE {})

SameIdentity(a, b) == Identity(a) \cap Identity(b) # {}

\* C4: after any sequence of add_card calls no two entries of the deck have
\* the same card identity (a name of one equals, case-insensitively, a name
\* of the other), whatever the order in which the cards were added.
C4_OneEntryPerIdentity ==
    \A i, j \in 1..Len(cards) : i # j => ~SameIdentity(cards[i], cards[j])

\* C5: remove_card(name, q) with q greater than or equal to the quantity of
\* the matching entry deletes that entry.
C5_RemoveAtLeastAllDeletes ==
    (last.op = "remove_card" /\ last.found /\ last.quantity >= last.before)
        => last.deleted

\* C6: remove_card returns True exactly when an entry matching the name
\* existed before the call; when none matches it returns False and leaves
\* every entry unchanged.
C6_RemoveReportsExistence ==
    last.op = "remove_card" =>
        /\ last.ret <=> last.found
        /\ ~last.found => (~last.ret /\ last.unchanged)

\* C7: after add_card and remove_card calls with quantity >= 1 every entry
\* has quantity >= 1; an entry whose quantity reaches zero is deleted.
C7_NoZeroQuantityEntry ==
    /\ \A i \in 1..Len(cards) : cards[i].quantity >= 1
    /\ (last.op = "remove_card" /\ last.found /\ last.quantity = last.before)
           => last.deleted

\* a remove_card call took the last copies of an entry while another entry
\* stays in the deck
C7_Witness ==
    /\ last.op = "remove_card"
    /\ last.found
    /\ last.quantity = last.before
    /\ last.deleted
    /\ Len(cards) >= 1

--------------------------------------------------------------------------
(* Properties of DeckController *)

\* C8: remove_card_from_deck(card_name), for a card that is in the
\* collection and has an entry in the current deck, returns True and removes
\* copies from that entry; called without a quantity it deletes the entry,
\* so that find_card for the card afterwards returns not-found.
C8_ControllerRemoves ==
    (last.op = "remove_card_from_deck" /\ last.in_collection /\ last.had_entry)
        => /\ last.ret
           /\ last.copies_removed
           /\ last.all => ~last.entry_left

--------------------------------------------------------------------------
(* Properties of compare_with_collection *)

Compared == last.op = "compare_with_collection"

\* the items of the three lists of a result
Items(r) ==
    {r.missing_cards[i] : i \in 1..Len(r.missing_cards)} \cup
    {r.available_cards[i] : i \in 1..Len(r.available_cards)} \cup
    {r.partial_cards[i] : i \in 1..Len(r.partial_cards)}

\* C2: total_cards_missing + total_cards_available = total_cards_needed,
\* also when the collection owns more copies of a card than the deck needs.
C2_MissingPlusAvailableIsNeeded ==
    Compared =>
        last.result.total_cards_missing + last.result.total_cards_available
            = last.result.total_cards_needed

\* C3: completion_percentage is in [0, 100], and is exactly 0 when the deck
\* has no cards.
C3_CompletionInRange ==
    Compared =>
        /\ last.result.completion_percentage >= 0
        /\ last.result.completion_percentage <= 100 * 100
        /\ cards = <<>> => last.result.completion_percentage = 0

\* the quantity of the record the card index returns for a name, 0 if none
IndexOwned(name) ==
    LET k == find_card_by_name(collection, name)
    IN IF k = 0 THEN 0 ELSE collection[k].quantity

\* C9: the owned quantity used for a deck entry is the quantity of the
\* record that the card index (find_card_by_name, over both names) returns
\* for the entry's name, and 0 when the index returns not-found.
C9_OwnedComesFromIndex ==
    Compared =>
        \A item \in Items(last.result) :
            item.available = IndexOwned(item.card.card_name)

\* the owned quantity the comparison reads for a deck entry: that of the
\* last record of the collection whose card_name is the entry's card_name
\* up to letter case, 0 if there is none
Owned(e) ==
    LET same == {k \in 1..Len(collection) :
                    Lower(collection[k].card_name) = Lower(e.card_name)}
    IN IF same = {} THEN 0
       ELSE collection[CHOOSE k \in same : \A j \in same : j <= k].quantity

Occurrences(list, e) == Cardinality({i \in 1..Len(list) : list[i].card = e})

\* C10: every deck entry is in exactly one of the three lists: missing when
\* owned = 0, partial when 0 < owned < needed (shortfall needed - owned),
\* available when owned >= needed; 4 copies needed of a card owned twice
\* give one partial entry (owned 2, needed 4, shortfall 2), completion 50.00.
C10_OneListPerEntry ==
    Compared =>
        LET r == last.result IN
        /\ \A i \in 1..Len(cards) :
              LET e == cards[i] IN
              /\ Occurrences(r.missing_cards, e) + Occurrences(r.partial_cards, e)
                    + Occurrences(r.available_cards, e) = 1
              /\ Owned(e) = 0 =>
                    [card |-> e, needed |-> e.quantity, available |-> 0]
                        \in Items([r EXCEPT !.partial_cards = <<>>, !.available_cards = <<>>])
              /\ (0 < Owned(e) /\ Owned(e) < e.quantity) =>
                    [card |-> e, needed |-> e.quantity, available |-> Owned(e),
                     missing |-> e.quantity - Owned(e)]
                        \in Items([r EXCEPT !.missing_cards = <<>>, !.available_cards = <<>>])
              /\ Owned(e) >= e.quantity =>
                    [card |-> e, needed |-> e.quantity, available |-> Owned(e)]
                        \in Items([r EXCEPT !.missing_cards = <<>>, !.partial_cards = <<>>])
        /\ Len(r.missing_cards) + Len(r.partial_cards) + Len(r.available_cards)
              = Len(cards)
        /\ (Len(cards) = 1 /\ cards[1].quantity = 4 /\ Owned(cards[1]) = 2) =>
              /\ r.partial_cards = <<[card |-> cards[1], needed |-> 4,
                                      available |-> 2, missing |-> 2]>>
              /\ r.missing_cards = <<>>
              /\ r.available_cards = <<>>
              /\ r.completion_percentage = 5000

\* the comparison of a deck needing 4 copies of a card owned twice
C10_Witness ==
    /\ Compared
    /\ Len(cards) = 1
    /\ cards[1].quantity = 4
    /\ Owned(cards[1]) = 2
    /\ Len(last.result.partial_cards) = 1

--------------------------------------------------------------------------
(* Purity of DeckService.compare_with_collection *)

\* a step that is a compare_with_collection call
CompareStep == last'.op = "compare_with_collection"

\* C11 as stated: compare_with_collection leaves the deck's entries, the
\* collection records and the card service's cached list and name index as
\* they were before the call, and a repeated call returns an equal result.
C11_ComparePure ==
    [][CompareStep => /\ cards' = cards
                      /\ collection' = collection
                      /\ card_service' = card_service
                      /\ last'.same_result]_vars

\* C11 amended: the deck and the collection records are left as they were;
\* the card service is left as it was when its cards were already loaded,
\* and otherwise goes from not loaded to holding the file's records and
\* their name index; a repeated call returns an equal result.
C11_ComparePureOnceLoaded ==
    [][CompareStep =>
         /\ cards' = cards
         /\ collection' = collection
         /\ card_service.loaded => card_service' = card_service
         /\ ~card_service.loaded =>
                card_service' = [loaded |-> TRUE, cards_cache |-> collection,
                                 cards_by_name |-> build_name_index(collection)]
         /\ last'.same_result]_vars

\* a second comparison in a row, of a deck with entries against a
\* collection with records
C11_Witness ==
    /\ last.op = "compare_with_collection"
    /\ last.repeated
    /\ last.was_loaded
    /\ Len(cards) >= 1
    /\ Len(collection) >= 1

--------------------------------------------------------------------------
(* Format validation *)

\* validate_deck_format has just run on a current deck
Validated == last.op = "validate_deck_format" /\ current_deck # None

ModernFormat == deck_info.format \in {"modern", "Modern"}
CommanderFormat == deck_info.format \in {"commander", "EDH"}

\* the number of times a message is in a list
Count(list, m) == Cardinality({i \in 1..Len(list) : list[i] = m})

NonLand(e) == e.type_line = "Instant"
BasicLand(e) == e.type_line = "Basic Land - Mountain"

ModernCopyError(e) == Message("Modern permite máximo 4 copias de", e.card_name)
CommanderCopyError(e) == Message("Commander permite máximo 1 copia de", e.card_name)

\* C12 as stated: for a modern deck that holds 5 copies of a non-land card,
\* validate_deck_format reports exactly one error, the one naming the card
\* and the 4-copy limit.
C12_ModernFiveCopiesOneError ==
    Validated /\ ModernFormat =>
        \A i \in 1..Len(cards) :
            cards[i].quantity = 5 /\ NonLand(cards[i]) =>
                last.result.errors = <<ModernCopyError(cards[i])>>

\* C12 amended: for such a deck the errors hold exactly one copy-limit error
\* naming that card and the 4-copy limit; it is the only error when the deck
\* has a name, at least 60 cards and no other entry over 4 copies that is
\* not a basic land.
C12_ModernFiveCopiesOneCopyError ==
    Validated /\ ModernFormat =>
        \A i \in 1..Len(cards) :
            cards[i].quantity = 5 /\ NonLand(cards[i]) =>
                /\ Count(last.result.errors, ModernCopyError(cards[i])) = 1
                /\ (/\ deck_info.name = "Burn"
                    /\ total_cards(cards) >= 60
                    /\ \A j \in 1..Len(cards) :
                          j # i => cards[j].quantity <= 4 \/ BasicLand(cards[j]))
                   => last.result.errors = <<ModernCopyError(cards[i])>>

\* a modern deck of 60 cards, 5 copies of a non-land card among them,
\* validated with one error
C12_Witness ==
    /\ Validated /\ ModernFormat
    /\ total_cards(cards) = 60
    /\ \E i \in 1..Len(cards) : cards[i].quantity = 5 /\ NonLand(cards[i])
    /\ Len(last.result.errors) = 1

\* C13: for a deck of format commander or edh, in any letter case,
\* validate_deck_format reports the 'exactly 100 cards' error whenever
\* total_cards is not 100, exactly one copy-limit error for each entry with
\* quantity > 1 that is not a basic land, and none for a basic-land entry.
C13_CommanderRules ==
    Validated /\ CommanderFormat =>
        /\ total_cards(cards) # 100 =>
               Count(last.result.errors,
                     Message("Commander requiere exactamente 100 cartas", None)) = 1
        /\ \A i \in 1..Len(cards) :
               /\ cards[i].quantity > 1 /\ ~BasicLand(cards[i]) =>
                      Count(last.result.errors, CommanderCopyError(cards[i])) = 1
               /\ BasicLand(cards[i]) =>
                      Count(last.result.errors, CommanderCopyError(cards[i])) = 0

\* an EDH deck that is not of 100 cards, with two copies of a spell and
\* many of a basic land
C13_Witness ==
    /\ Validated
    /\ deck_info.format = "EDH"
    /\ total_cards(cards) # 100
    /\ \E i, j \in 1..Len(cards) :
          /\ cards[i].quantity = 2 /\ NonLand(cards[i])
          /\ cards[j].quantity > 1 /\ BasicLand(cards[j])
    /\ Len(last.result.errors) = 2

--------------------------------------------------------------------------
(* The copy limit at add time *)

\* C14: add_card_to_deck returns False and leaves the current deck
\* unchanged when the deck already holds 4 copies of the card being added.
C14_AddRefusedAtLimit ==
    last.op = "add_card_to_deck" /\ last.held = CopyLimit =>
        ~last.ret /\ last.unchanged

--------------------------------------------------------------------------
(* The image cache *)

\* a file that exists and does not hold a readable image
Undecodable(bytes) == bytes # NoFile /\ bytes # Jpeg

\* C15: when the cached file of a URL exists but cannot be decoded,
\* get_image_from_cache_only deletes the file and returns not-found, so that
\* is_image_cached for the URL is False afterwards.
C15_CorruptFileDeleted ==
    last.op = "get_image_from_cache_only" /\ Undecodable(last.before) =>
        /\ last.ret = None
        /\ ~is_image_cached(files, last.url)

\* C16: when download_and_cache_image returns failure, no file is left at
\* the URL's cache path that a later call treats as a cache hit:
\* is_image_cached is False and preload_image does not report the image as
\* already cached.
C16_NoFileAfterFailure ==
    last.op = "download_and_cache_image" /\ last.url # "" /\ last.ret = None =>
        /\ ~is_image_cached(files, last.url)
        /\ ~preload_image(files, last.url, NetworkError, "ok").ret

\* C17: with the server answering with the image and the disk taking the
\* write, a download_and_cache_image that finds the cached file of its URL
\* corrupted performs exactly one download and leaves a valid cache entry,
\* and a call that finds a valid entry is served from disk with no download.
C17_CorruptFileRefetchedOnce ==
    last.op = "download_and_cache_image" /\ last.url # "" =>
        /\ (/\ Undecodable(last.before)
            /\ last.response \in {Jpeg, <<"unused">>}
            /\ last.disk \in {"ok", "unused"})
           => last.fetches = 1 /\ FileOf(files, last.url) = Jpeg
        /\ last.before = Jpeg => last.fetches = 0 /\ last.ret = "PhotoImage"

DownloadStep(url) == last'.op = "download_and_cache_image" /\ last'.url = url

C19_CacheOnlyIsLocal ==
    last.op = "get_image_from_cache_only" =>
        last.fetches = 0 /\ last.created = {}

\* a cache-only lookup of a URL that has no file, while another URL has one
C19_Witness ==
    /\ last.op = "get_image_from_cache_only"
    /\ last.url # ""
    /\ last.before = NoFile
    /\ last.ret = None
    /\ \E p \in Paths : Undecodable(files[p])

--------------------------------------------------------------------------
(* Two concurrent downloads of one URL *)

\* both calls are for one URL, both looked for the cache file while there
\* was none, and both have finished
Raced ==
    /\ \A t \in Threads : threads.calls[t].pc = "done" /\ threads.calls[t].saw = "no file"
    /\ threads.calls[1].url = threads.calls[2].url

BothWrote == \A t \in Threads : threads.calls[t].wrote

RacedFile == files[get_cache_filename(threads.calls[1].url)]
LastWritten == threads.last_write[get_cache_filename(threads.calls[1].url)]

\* C20 as stated: when two download_and_cache_image calls for one URL run
\* concurrently while no cache entry exists, both perform a download, and
\* once both have written the cache path and finished, the file holds the
\* complete bytes written by the last writer.
C20_LastWriterWins ==
    Raced =>
        /\ \A t \in Threads : threads.calls[t].fetched
        /\ BothWrote => RacedFile = LastWritten

\* C20 amended: both perform a download, and once both have written the
\* cache path and finished, the file starts with the complete bytes written
\* by the last writer; it holds exactly those bytes when neither body is
\* longer than them.
C20_LastWriterFirst ==
    Raced =>
        /\ \A t \in Threads : threads.calls[t].fetched
        /\ BothWrote =>
              /\ Len(RacedFile) >= Len(LastWritten)
              /\ SubSeq(RacedFile, 1, Len(LastWritten)) = LastWritten
              /\ (\A t \in Threads : Len(threads.calls[t].body) <= Len(LastWritten))
                 => RacedFile = LastWritten

\* two finished calls that both missed the cache and wrote different bodies
C20_Witness ==
    /\ Raced
    /\ BothWrote
    /\ threads.calls[1].body # threads.calls[2].body
    /\ RacedFile = LastWritten

--------------------------------------------------------------------------
(* Clearing the image cache *)

\* no cache file is removed by a step that is not a clear_cache call
CacheFilesKept ==
    \A p \in Paths :
        files[p] # NoFile /\ last'.op # "clear_cache" => files'[p] # NoFile

\* C21 as stated: a cache entry persists until clear_cache is called, no
\* other ImageService operation removes it; clear_cache returns the number
\* of cache files that existed, and right afterwards get_cache_count() is 0,
\* get_cache_size() is 0 and is_image_cached is False for every URL.
C21_ClearRemovesAll ==
    [][/\ CacheFilesKept
       /\ last'.op = "clear_cache" =>
             /\ last'.ret = get_cache_count(files)
             /\ get_cache_count(files') = 0
             /\ get_cache_size(files') = 0
             /\ \A url \in URLs : ~is_image_cached(files', url)]_vars

\* C21 amended: a cache entry persists until clear_cache is called;
\* clear_cache returns the number of files it removed, and that many fewer
\* files are cached afterwards; when no unlink fails this is the number of
\* files that existed, and right afterwards get_cache_count() is 0,
\* get_cache_size() is 0 and is_image_cached is False for every URL.
C21_ClearRemovesWhatItCounts ==
    [][/\ CacheFilesKept
       /\ last'.op = "clear_cache" =>
             /\ get_cache_count(files') = get_cache_count(files) - last'.ret
             /\ ~last'.failed =>
                   /\ last'.ret = get_cache_count(files)
                   /\ get_cache_count(files') = 0
                   /\ get_cache_size(files') = 0
                   /\ \A url \in URLs : ~is_image_cached(files', url)]_vars

\* a clear_cache that found two files and removed both
C21_Witness ==
    /\ last.op = "clear_cache"
    /\ last.existed = 2
    /\ last.ret = 2
    /\ ~last.failed
    /\ files = EmptyCache

--------------------------------------------------------------------------
(* Properties of the searches *)

\* the records of the collection file that match a query, in load order
AllMatches(query) ==
    LET Test(c) == matches(c, Lower(query)) IN SelectSeq(collection, Test)

Searched == last.op \in {"search_cards", "controller_search_cards"}

\* C22: search_cards(query, limit), of CardService and of CardController,
\* returns in load order the records one of whose names contains the query
\* case-insensitively, cut to the first limit records, limit = 0 meaning
\* all matches.
C22_SearchReturnsMatches ==
    (Searched /\ ~last.raised) =>
        last.ret = IF last.limit = 0 THEN AllMatches(last.query)
                   ELSE Slice(AllMatches(last.query), last.limit)

\* C23: with the collection file missing or empty the lookups report
\* not-found and do not raise: find_card_by_name returns None and
\* search_cards returns [].
C23_MissingOrEmptyIsNotFound ==
    (~data_exists \/ collection = <<>>) =>
        /\ last.op = "find_card_by_name" => ~last.raised /\ last.ret = 0
        /\ last.op = "search_cards" => ~last.raised /\ last.ret = <<>>

\* the load positions of the records that carry a name up to letter case
Carriers(name) ==
    {i \in 1..Len(collection) :
        \/ Lower(collection[i].card_name) = Lower(name)
        \/ /\ Truthy(collection[i].english_card_name)
           /\ Lower(collection[i].english_card_name) = Lower(name)}

\* C24: the index holds the lower-cased card_name and english_card_name of
\* every loaded record, and find_card_by_name(name) returns the record that
\* comes last in load order among those carrying the name up to letter
\* case, None when there is none.
C24_IndexLastWins ==
    (last.op = "find_card_by_name" /\ ~last.raised) =>
        /\ last.ret = IF Carriers(last.name) = {} THEN 0
                      ELSE CHOOSE i \in Carriers(last.name) :
                               \A j \in Carriers(last.name) : j <= i
        /\ \A i \in 1..Len(collection) :
              /\ card_service.cards_by_name[Lower(collection[i].card_name)] # 0
              /\ Truthy(collection[i].english_card_name) =>
                    card_service.cards_by_name[
                        Lower(collection[i].english_card_name)] # 0

\* a lookup answered with the second of two records that share the name,
\* one by its english name, the name asked in another letter case
C24_Witness ==
    /\ last.op = "find_card_by_name"
    /\ ~last.raised
    /\ Carriers(last.name) = {1, 2}
    /\ last.ret = 2
    /\ collection[2].card_name # last.name
    /\ collection[2].english_card_name # last.name

\* C30: after an advanced_search call the list load_cards returns holds
\* the records of the collection in load order.
C30_LoadOrderKept ==
    (last.op = "advanced_search" /\ card_service.loaded) =>
        card_service.cards_cache = collection


--------------------------------------------------------------------------
(* Properties of DeckController.update_card_quantity *)

\* C27: update_card_quantity(card_name, n), for a card found in the
\* collection and with a current deck, returns True and leaves the deck
\* holding exactly n copies of the card, no entry for it when n <= 0,
\* whether or not the card had an entry before the call.
C27_UpdateSetsQuantity ==
    (last.op = "update_card_quantity" /\ last.applies) =>
        /\ last.ret
        /\ IF last.new_quantity <= 0 THEN ~last.entry_left
           ELSE last.entry_left /\ last.held = last.new_quantity

--------------------------------------------------------------------------
(* Properties of the deck files *)

\* a run of spaces of any length replaced by one space
RECURSIVE collapse_runs(_)
collapse_runs(s) ==
    IF Len(s) < 2 THEN s
    ELSE IF s[1] = " " /\ s[2] = " " THEN collapse_runs(Tail(s))
    ELSE <<s[1]>> \o collapse_runs(Tail(s))

\* C26: _safe_filename replaces every character that is not alphanumeric,
\* space, hyphen or underscore, collapses every run of consecutive spaces
\* into one and turns spaces into hyphens: a run of spaces in a deck name
\* never yields more than one hyphen in the file name.
C26_RunsOfSpacesCollapse ==
    last.op = "safe_filename" =>
        /\ last.ret = replace_spaces(collapse_runs(strip(replace_unsafe(last.name))))
        /\ \A i \in 1..(Len(last.ret) - 1) :
              ~(last.ret[i] = "-" /\ last.ret[i + 1] = "-")

\* C28: after save_deck(A) and save_deck(B) with different names the two
\* decks are stored in different files and both are loaded back with their
\* own name and cards.
C28_SavesDoNotCollide ==
    (last.op = "save_deck" /\ last.ret /\ last.after_save
        /\ last.previous.deck.name # last.deck.name) =>
        /\ last.previous.filename # last.filename
        /\ load_deck(deck_dir, last.previous.filename) = last.previous.deck
        /\ load_deck(deck_dir, last.filename) = last.deck

--------------------------------------------------------------------------
(* Properties of the deck text files *)

\* the quantities written on the card lines of a file
RECURSIVE WrittenTotal(_)
WrittenTotal(lines) ==
    IF lines = <<>> THEN 0
    ELSE (IF Head(lines).kind = "card" THEN Head(lines).count.n ELSE 0)
             + WrittenTotal(Tail(lines))

LinesOf(lines, name) ==
    {i \in 1..Len(lines) : lines[i].kind = "card" /\ lines[i].name = name}

\* C25: export_deck_to_txt writes every deck entry exactly once, so the
\* quantities written sum to total_cards, and importing the exported file
\* against a collection holding all the cards yields the same quantity per
\* card, also for a card whose type line names several types.
C25_ExportImportRoundTrip ==
    /\ last.op = "export_deck_to_txt" =>
          /\ \A i \in 1..Len(cards) :
                Cardinality(LinesOf(last.lines, cards[i].card_name)) = 1
          /\ WrittenTotal(last.lines) = total_cards(cards)
    /\ (last.op = "import_deck_from_txt" /\ last.exported) =>
          \A n \in Names : QuantityOf(last.deck, n) = QuantityOf(cards, n)

\* C29: every entry of a deck returned by import_deck_from_txt has
\* quantity >= 1, whatever the lines of the file.
C29_ImportedQuantitiesPositive ==
    last.op = "import_deck_from_txt" =>
        \A i \in 1..Len(last.deck) : last.deck[i].quantity >= 1

==========================================================================
